---- MODULE Spec2Model ----
(***************************************************************************)
(* Transaction codec and execution scripts of stablecoin-aptos:            *)
(*   decodeTransaction  (src/scripts/typescript/decodeTransaction.ts)      *)
(*   executeTransaction (src/unnamed/part_004)                             *)
(* Byte strings are sequences of 0..255; BCS layouts are those the scripts *)
(* consume through SimpleTransaction.deserialize and the Deserializer.     *)
(***************************************************************************)
EXTENDS Integers, Sequences, FiniteSets, TLC

(***************************************************************************)
(* Bounds of the model.                                                    *)
(***************************************************************************)
\* Number of command invocations (decode or execute) one behaviour makes.
MaxRuns == 2

\* The vectors of byte strings given to the vector decoder: at most
\* MaxVectors byte strings of at most MaxBytes bytes each.
MaxVectors == 3
MaxBytes == 2

\* The calls one process runs concurrently.
MaxCalls == 2

(***************************************************************************)
(* Bytes and hex strings.                                                  *)
(***************************************************************************)
\* AccountAddress.LENGTH: an address is 32 fixed bytes.
AddressLength == 32

HexDigits == <<"0", "1", "2", "3", "4", "5", "6", "7",
               "8", "9", "a", "b", "c", "d", "e", "f">>

\* Two lower-case hex characters of one byte.
HexByte(b) == HexDigits[(b \div 16) + 1] \o HexDigits[(b % 16) + 1]

RECURSIVE BytesToHex(_)
\* Buffer.from(bytes).toString("hex") / bytesToHex: no prefix.
BytesToHex(bs) ==
    IF bs = <<>> THEN ""
    ELSE IF Len(bs) = 1 THEN HexByte(bs[1])
    ELSE LET half == Len(bs) \div 2
         IN BytesToHex(SubSeq(bs, 1, half))
            \o BytesToHex(SubSeq(bs, half + 1, Len(bs)))

\* Hex.toString(): the 0x-prefixed hex string of the bytes.
HexToString(bs) == "0x" \o BytesToHex(bs)

\* n copies of byte b.
Rep(b, n) == [i \in 1..n |-> b]

\* A hex string given on the command line: an optional 0x prefix and its
\* characters, each a hex digit value 0..15 or 16 for a character that is
\* no hex digit.
BytesToNibbles(bs) ==
    [i \in 1..(2 * Len(bs)) |->
        IF i % 2 = 1 THEN bs[(i + 1) \div 2] \div 16 ELSE bs[i \div 2] % 16]

HexInputOf(bs) == [prefix |-> TRUE, digits |-> BytesToNibbles(bs)]

\* The bytes of an even number of hex digits.
NibblesToBytes(ds) ==
    [i \in 1..(Len(ds) \div 2) |-> ds[2 * i - 1] * 16 + ds[2 * i]]

(***************************************************************************)
(* Results of a read: ok, the value, the position of the next unread byte  *)
(* (1-based), or the error and the position it was raised at.              *)
(***************************************************************************)
Ok(v, pos) == [ok |-> TRUE, err |-> "", val |-> v, pos |-> pos]
Fail(e, pos) == [ok |-> FALSE, err |-> e, val |-> <<>>, pos |-> pos]

\* Hex.fromHexString(str).toUint8Array(): strips 0x, rejects an empty
\* string, an odd number of characters and characters that are no hex digit.
FromHexString(h) ==
    IF Len(h.digits) = 0 THEN Fail("InvalidHex", 0)
    ELSE IF Len(h.digits) % 2 # 0 THEN Fail("InvalidHex", 0)
    ELSE IF \E i \in 1..Len(h.digits) : h.digits[i] > 15
         THEN Fail("InvalidHex", 0)
    ELSE Ok(NibblesToBytes(h.digits), 0)

(***************************************************************************)
(* Deserializer: the binary reader.                                        *)
(***************************************************************************)
\* deserializeFixedBytes(n): n bytes, or underrun.
ReadFixedBytes(bs, pos, n) ==
    IF pos + n - 1 > Len(bs) THEN Fail("BufferUnderrun", pos)
    ELSE Ok(SubSeq(bs, pos, pos + n - 1), pos + n)

ReadU8(bs, pos) ==
    IF pos > Len(bs) THEN Fail("BufferUnderrun", pos)
    ELSE Ok(bs[pos], pos + 1)

\* deserializeBool(): one byte, 0 or 1.
ReadBool(bs, pos) ==
    IF pos > Len(bs) THEN Fail("BufferUnderrun", pos)
    ELSE IF bs[pos] > 1 THEN Fail("InvalidBool", pos)
    ELSE Ok(bs[pos] = 1, pos + 1)

RECURSIVE LittleEndian(_)
\* Value of little-endian bytes (most significant byte last).
LittleEndian(bs) ==
    IF bs = <<>> THEN 0
    ELSE Head(bs) + 256 * LittleEndian(Tail(bs))

\* deserializeU64(): 8 little-endian bytes.
ReadU64(bs, pos) ==
    LET r == ReadFixedBytes(bs, pos, 8)
    IN IF r.ok THEN Ok(LittleEndian(r.val), r.pos) ELSE r

Pow2(n) == IF n = 0 THEN 1 ELSE IF n = 7 THEN 128 ELSE IF n = 14 THEN 16384
           ELSE IF n = 21 THEN 2097152 ELSE 268435456

RECURSIVE UlebLoop(_, _, _, _)
\* deserializeUleb128AsU32(): 7 data bits per byte, high bit continues;
\* a value above the 32-bit range is an overflow.
UlebLoop(bs, pos, shift, value) ==
    IF pos > Len(bs) THEN Fail("BufferUnderrun", pos)
    ELSE LET byte == bs[pos]
             low  == byte % 128
         IN IF shift > 28 \/ (shift = 28 /\ low > 7)
            THEN Fail("MalformedVarint", pos)
            ELSE LET v == value + low * Pow2(shift)
                 IN IF byte < 128 THEN Ok(v, pos + 1)
                    ELSE UlebLoop(bs, pos + 1, shift + 7, v)

ReadUleb128(bs, pos) == UlebLoop(bs, pos, 0, 0)

\* deserializeBytes(): ULEB128 length, then that many bytes.
ReadBytes(bs, pos) ==
    LET l == ReadUleb128(bs, pos)
    IN IF l.ok THEN ReadFixedBytes(bs, l.pos, l.val) ELSE l

\* AccountAddress.deserialize: 32 fixed bytes.
ReadAddress(bs, pos) == ReadFixedBytes(bs, pos, AddressLength)

(***************************************************************************)
(* Strings of identifiers and numbers.                                     *)
(***************************************************************************)
LowerCase == <<"a", "b", "c", "d", "e", "f", "g", "h", "i", "j", "k", "l", "m",
               "n", "o", "p", "q", "r", "s", "t", "u", "v", "w", "x", "y", "z">>

\* One UTF-8 byte of an identifier as a character (letters, digits and _;
\* any other byte prints as ?).
Chr(b) ==
    IF b >= 97 /\ b <= 122 THEN LowerCase[b - 96]
    ELSE IF b >= 48 /\ b <= 57 THEN HexDigits[b - 47]
    ELSE IF b = 95 THEN "_"
    ELSE "?"

RECURSIVE BytesToStr(_)
\* deserializeStr(): the text of UTF-8 bytes.
BytesToStr(bs) ==
    IF bs = <<>> THEN ""
    ELSE IF Len(bs) = 1 THEN Chr(bs[1])
    ELSE LET half == Len(bs) \div 2
         IN BytesToStr(SubSeq(bs, 1, half))
            \o BytesToStr(SubSeq(bs, half + 1, Len(bs)))

\* AccountAddress.isSpecial(): the first 31 bytes are zero and the last is
\* below 16.
IsSpecialAddress(a) ==
    /\ \A i \in 1..(Len(a) - 1) : a[i] = 0
    /\ a[Len(a)] < 16

\* AccountAddress.toString(): 0x and the full hex, or the single last hex
\* digit for a special address.
AddressToString(a) ==
    IF IsSpecialAddress(a) THEN "0x" \o HexDigits[a[Len(a)] + 1]
    ELSE "0x" \o BytesToHex(a)

(***************************************************************************)
(* BCS deserialization of the SDK's types, by type name.                   *)
(***************************************************************************)
PrimitiveTags == <<"bool", "u8", "u64", "u128", "address", "signer">>

\* Bytes a script argument occupies after its variant index; 0 marks the
\* length-prefixed U8 vector, -1 an unknown variant.
ScriptArgWidth(variant) ==
    CASE variant = 0 -> 1
      [] variant = 1 -> 8
      [] variant = 2 -> 16
      [] variant = 3 -> AddressLength
      [] variant = 4 -> 0
      [] variant = 5 -> 1
      [] variant = 6 -> 2
      [] variant = 7 -> 4
      [] variant = 8 -> 32
      [] OTHER -> -1

\* Ed25519PublicKey.LENGTH, Ed25519Signature.LENGTH, MultiKeySignature.BITMAP_LEN.
Ed25519KeyLength == 32
Ed25519SignatureLength == 64
BitmapLength == 4

\* The member indices a bitmap names: bit i is the (i % 8)-th most
\* significant bit of byte i \div 8.
BitmapIndices(bitmap) ==
    {i \in 0..(8 * Len(bitmap) - 1) :
        (bitmap[(i \div 8) + 1] \div (2 ^ (7 - (i % 8)))) % 2 = 1}

\* The absent fee payer address (feePayerAddress undefined).
NoAddress == <<>>

\* The constructors: the value of a type from the result r of reading its
\* fields, or the error of that read.
NewStructTag(r) ==
    IF ~r.ok THEN r
    ELSE Ok([kind |-> "struct", address |-> r.val[1], module |-> r.val[2],
             name |-> r.val[3], typeArgs |-> r.val[4]], r.pos)

NewVectorTag(r) ==
    IF ~r.ok THEN r ELSE Ok([kind |-> "vector", inner |-> r.val], r.pos)

NewEntryFunction(r) ==
    IF ~r.ok THEN r
    ELSE Ok([kind |-> "entryFunction", moduleAddress |-> r.val[1],
             moduleName |-> r.val[2], functionName |-> r.val[3],
             typeArgs |-> r.val[4], args |-> r.val[5]], r.pos)

NewScriptArgument(variant, r) ==
    IF ~r.ok THEN r ELSE Ok([variant |-> variant, value |-> r.val], r.pos)

NewScript(r) ==
    IF ~r.ok THEN r
    ELSE Ok([kind |-> "script", bytecode |-> r.val[1], typeArgs |-> r.val[2],
             args |-> r.val[3]], r.pos)

\* A multisig payload: r is the address and the bool telling whether a
\* payload follows, e the variant index and entry function read after it.
NewMultiSig(r, e) ==
    IF ~r.ok THEN r
    ELSE IF ~r.val[2]
    THEN Ok([kind |-> "multisig", multisigAddress |-> r.val[1],
             hasPayload |-> FALSE], r.pos)
    ELSE IF ~e.ok THEN e
    ELSE Ok([kind |-> "multisig", multisigAddress |-> r.val[1],
             hasPayload |-> TRUE, entryFunction |-> e.val[2]], e.pos)

\* new RawTransaction(sender, sequence_number, payload, max_gas_amount,
\* gas_unit_price, expiration_timestamp_secs, chain_id), from the fields in
\* the order they are read.
NewRawTransaction(r) ==
    IF ~r.ok THEN r
    ELSE Ok([sender |-> r.val[1], sequence_number |-> r.val[2],
             payload |-> r.val[3], max_gas_amount |-> r.val[4],
             gas_unit_price |-> r.val[5],
             expiration_timestamp_secs |-> r.val[6], chain_id |-> r.val[7]],
            r.pos)

\* new SimpleTransaction(rawTransaction, feePayerAddress): r is the raw
\* transaction and the bool telling whether a fee payer address follows, a
\* the address read after it.
NewSimpleTransaction(r, a) ==
    IF ~r.ok THEN r
    ELSE IF ~r.val[2]
    THEN Ok([rawTransaction |-> r.val[1], feePayerAddress |-> NoAddress], r.pos)
    ELSE IF ~a.ok THEN a
    ELSE Ok([rawTransaction |-> r.val[1], feePayerAddress |-> a.val], a.pos)

\* new Ed25519PublicKey(bytes): the bytes must be 32.
NewEd25519PublicKey(b, pos) ==
    IF ~b.ok THEN b
    ELSE IF Len(b.val) # Ed25519KeyLength
    THEN Fail("AuthenticatorLengthMismatch", pos)
    ELSE Ok([variant |-> "ed25519", key |-> b.val], b.pos)

\* new Ed25519Signature(bytes): the bytes must be 64.
NewEd25519Signature(b, pos) ==
    IF ~b.ok THEN b
    ELSE IF Len(b.val) # Ed25519SignatureLength
    THEN Fail("AuthenticatorLengthMismatch", pos)
    ELSE Ok([variant |-> "ed25519", signature |-> b.val], b.pos)

\* new MultiKey({publicKeys, signaturesRequired}): the number of signatures
\* required must be at least 1 and at most the number of keys.
NewMultiKey(r, pos) ==
    IF ~r.ok THEN r
    ELSE IF r.val[2] < 1 \/ Len(r.val[1]) < r.val[2]
    THEN Fail("InvalidMultiKey", pos)
    ELSE Ok([variant |-> "multiKey",
             publicKeys |-> [i \in 1..Len(r.val[1]) |-> r.val[1][i].key],
             signaturesRequired |-> r.val[2]], r.pos)

\* new MultiKeySignature({signatures, bitmap}): the bitmap is 4 bytes and
\* names as many member indices as there are signatures.
NewMultiKeySignature(r, pos) ==
    IF ~r.ok THEN r
    ELSE IF Len(r.val[2]) # BitmapLength
    THEN Fail("AuthenticatorLengthMismatch", pos)
    ELSE IF Cardinality(BitmapIndices(r.val[2])) # Len(r.val[1])
    THEN Fail("InvalidMultiKeySignature", pos)
    ELSE Ok([variant |-> "multiKey",
             signatures |-> [i \in 1..Len(r.val[1]) |-> r.val[1][i].signature],
             bitmap |-> r.val[2]], r.pos)

\* The position after a successful read, 1 after a failed one (where
\* nothing more is read).
After(r) == IF r.ok THEN r.pos ELSE 1

RECURSIVE Deserialize(_, _, _)
RECURSIVE DeserializeFields(_, _, _, _)
RECURSIVE DeserializeMany(_, _, _, _, _)
RECURSIVE DeserializeVariant(_, _, _, _)

\* The fields of a structure, read one after the other.
DeserializeFields(types, bs, pos, acc) ==
    IF types = <<>> THEN Ok(acc, pos)
    ELSE LET r == Deserialize(Head(types), bs, pos)
         IN IF r.ok
            THEN DeserializeFields(Tail(types), bs, r.pos, Append(acc, r.val))
            ELSE r

\* n values of one type, in order.
DeserializeMany(type, bs, pos, n, acc) ==
    IF n = 0 THEN Ok(acc, pos)
    ELSE LET r == Deserialize(type, bs, pos)
         IN IF r.ok
            THEN DeserializeMany(type, bs, r.pos, n - 1, Append(acc, r.val))
            ELSE r

\* deserializeVector: ULEB128 length, then that many values.
DeserializeVector(type, bs, pos) ==
    LET l == ReadUleb128(bs, pos)
    IN IF l.ok THEN DeserializeMany(type, bs, l.pos, l.val, <<>>) ELSE l

\* The value of an enum type after its variant index v, read at pos.
DeserializeVariant(type, bs, pos, v) ==
    IF ~v.ok THEN v
    ELSE
    CASE type = "TypeTag" ->
            \* TypeTag.deserialize.
            IF v.val <= 5 THEN Ok([kind |-> PrimitiveTags[v.val + 1]], v.pos)
            ELSE IF v.val = 6
            THEN NewVectorTag(Deserialize("TypeTag", bs, v.pos))
            ELSE IF v.val = 7 THEN Deserialize("StructTag", bs, v.pos)
            ELSE IF v.val = 8 THEN Ok([kind |-> "u16"], v.pos)
            ELSE IF v.val = 9 THEN Ok([kind |-> "u32"], v.pos)
            ELSE IF v.val = 10 THEN Ok([kind |-> "u256"], v.pos)
            ELSE Fail("UnknownVariant", pos)
      [] type = "ScriptArgument" ->
            IF ScriptArgWidth(v.val) < 0 THEN Fail("UnknownVariant", pos)
            ELSE NewScriptArgument(v.val,
                     IF v.val = 4 THEN ReadBytes(bs, v.pos)
                     ELSE IF v.val = 5 THEN ReadBool(bs, v.pos)
                     ELSE ReadFixedBytes(bs, v.pos, ScriptArgWidth(v.val)))
      [] type = "TransactionPayload" ->
            \* TransactionPayload.deserialize: 0 script, 2 entry function,
            \* 3 multisig; every other variant index is rejected.
            IF v.val = 0 THEN Deserialize("Script", bs, v.pos)
            ELSE IF v.val = 2 THEN Deserialize("EntryFunction", bs, v.pos)
            ELSE IF v.val = 3 THEN Deserialize("MultiSig", bs, v.pos)
            ELSE Fail("UnknownVariant", pos)
      [] type = "AnyPublicKey" ->
            \* AnyPublicKey.deserialize: 0 is Ed25519, the only variant
            \* modelled.
            IF v.val # 0 THEN Fail("UnknownVariant", pos)
            ELSE Deserialize("Ed25519PublicKey", bs, v.pos)
      [] type = "AnySignature" ->
            IF v.val # 0 THEN Fail("UnknownVariant", pos)
            ELSE Deserialize("Ed25519Signature", bs, v.pos)

\* T.deserialize(deserializer) for the types the scripts deserialize.
Deserialize(type, bs, pos) ==
    CASE type = "U8" -> ReadU8(bs, pos)
      [] type = "U64" -> ReadU64(bs, pos)
      [] type = "Bool" -> ReadBool(bs, pos)
      [] type = "Uleb128" -> ReadUleb128(bs, pos)
      [] type = "Bytes" -> ReadBytes(bs, pos)
      [] type = "AccountAddress" -> ReadAddress(bs, pos)
      [] type \in {"TypeTag", "ScriptArgument", "TransactionPayload",
                   "AnyPublicKey", "AnySignature"} ->
            DeserializeVariant(type, bs, pos, ReadUleb128(bs, pos))
      \* StructTag.deserialize: address, module name, name, type arguments.
      [] type = "StructTag" ->
            NewStructTag(DeserializeFields(
                <<"AccountAddress", "Bytes", "Bytes", "TypeTags">>, bs, pos, <<>>))
      [] type = "TypeTags" -> DeserializeVector("TypeTag", bs, pos)
      \* EntryFunction.deserialize: module id, function name, type arguments,
      \* then each argument as a ULEB128 length and that many raw bytes.
      [] type = "EntryFunction" ->
            NewEntryFunction(DeserializeFields(
                <<"AccountAddress", "Bytes", "Bytes", "TypeTags",
                  "EntryFunctionArgs">>, bs, pos, <<>>))
      [] type = "EntryFunctionArgs" -> DeserializeVector("Bytes", bs, pos)
      [] type = "ScriptArguments" -> DeserializeVector("ScriptArgument", bs, pos)
      \* Script.deserialize: bytecode, type arguments, arguments.
      [] type = "Script" ->
            NewScript(DeserializeFields(
                <<"Bytes", "TypeTags", "ScriptArguments">>, bs, pos, <<>>))
      \* MultiSig.deserialize: multisig address, then an optional payload
      \* (its variant index is read and not inspected, then an entry function).
      [] type = "MultiSig" ->
            LET r == DeserializeFields(<<"AccountAddress", "Bool">>, bs, pos, <<>>)
            IN NewMultiSig(r, DeserializeFields(<<"Uleb128", "EntryFunction">>,
                                                bs, After(r), <<>>))
      \* RawTransaction.deserialize: sender, sequence number, payload, max gas
      \* amount, gas unit price, expiration timestamp, chain id, in this order.
      [] type = "RawTransaction" ->
            NewRawTransaction(DeserializeFields(
                <<"AccountAddress", "U64", "TransactionPayload", "U64", "U64",
                  "U64", "U8">>, bs, pos, <<>>))
      \* SimpleTransaction.deserialize: the raw transaction, a bool telling
      \* whether a fee payer address follows, and that address. Bytes after
      \* it are not read.
      [] type = "SimpleTransaction" ->
            LET r == DeserializeFields(<<"RawTransaction", "Bool">>, bs, pos, <<>>)
            IN NewSimpleTransaction(r, ReadAddress(bs, After(r)))
      \* Ed25519PublicKey.deserialize, Ed25519Signature.deserialize:
      \* length-prefixed bytes.
      [] type = "Ed25519PublicKey" -> NewEd25519PublicKey(ReadBytes(bs, pos), pos)
      [] type = "Ed25519Signature" -> NewEd25519Signature(ReadBytes(bs, pos), pos)
      [] type = "AnyPublicKeys" -> DeserializeVector("AnyPublicKey", bs, pos)
      [] type = "AnySignatures" -> DeserializeVector("AnySignature", bs, pos)
      \* MultiKey.deserialize: the member keys, then the number of
      \* signatures required.
      [] type = "MultiKey" ->
            NewMultiKey(DeserializeFields(<<"AnyPublicKeys", "U8">>,
                                          bs, pos, <<>>), pos)
      \* MultiKeySignature.deserialize: the signatures, then the bitmap of
      \* the member indices they belong to.
      [] type = "MultiKeySignature" ->
            NewMultiKeySignature(DeserializeFields(<<"AnySignatures", "Bytes">>,
                                                   bs, pos, <<>>), pos)
      \* MoveVector.deserialize(deserializer, U8).
      [] type = "MoveVectorU8" -> DeserializeVector("U8", bs, pos)

\* SimpleTransaction.deserialize(new Deserializer(bytes)).
SimpleTransactionDeserialize(bs) == Deserialize("SimpleTransaction", bs, 1)

RECURSIVE TypeTagToString(_)
RECURSIVE TypeTagsJoin(_)

\* Type arguments of a struct tag joined with ", ".
TypeTagsJoin(ts) ==
    IF Len(ts) = 1 THEN TypeTagToString(ts[1])
    ELSE TypeTagToString(Head(ts)) \o ", " \o TypeTagsJoin(Tail(ts))

\* TypeTag.toString().
TypeTagToString(t) ==
    IF t.kind = "vector" THEN "vector<" \o TypeTagToString(t.inner) \o ">"
    ELSE IF t.kind = "struct" THEN
        AddressToString(t.address) \o "::" \o BytesToStr(t.module)
        \o "::" \o BytesToStr(t.name)
        \o (IF t.typeArgs = <<>> THEN ""
            ELSE "<" \o TypeTagsJoin(t.typeArgs) \o ">")
    ELSE t.kind

(***************************************************************************)
(* BCS serialization, as the callers of the scripts produce their inputs   *)
(* (transaction.bcsToHex() in the tests' fixtures).                        *)
(***************************************************************************)
RECURSIVE ToLittleEndian(_, _)
\* The k little-endian bytes of n.
ToLittleEndian(n, k) ==
    IF k = 0 THEN <<>>
    ELSE <<n % 256>> \o ToLittleEndian(n \div 256, k - 1)

RECURSIVE Uleb128(_)
\* serializeU32AsUleb128.
Uleb128(n) ==
    IF n < 128 THEN <<n>> ELSE <<(n % 128) + 128>> \o Uleb128(n \div 128)

\* serializeBytes: ULEB128 length, then the bytes.
SerBytes(bs) == Uleb128(Len(bs)) \o bs

RECURSIVE Flatten(_)
\* Concatenation of a sequence of byte strings.
Flatten(ss) == IF ss = <<>> THEN <<>> ELSE Head(ss) \o Flatten(Tail(ss))

\* serializeVector: ULEB128 length, then the already serialized elements.
SerVector(elems) == Uleb128(Len(elems)) \o Flatten(elems)

\* Variant index of a type tag.
TypeTagVariant(kind) ==
    CASE kind = "bool" -> 0 [] kind = "u8" -> 1 [] kind = "u64" -> 2
      [] kind = "u128" -> 3 [] kind = "address" -> 4 [] kind = "signer" -> 5
      [] kind = "vector" -> 6 [] kind = "struct" -> 7 [] kind = "u16" -> 8
      [] kind = "u32" -> 9 [] kind = "u256" -> 10

RECURSIVE SerTypeTag(_)
\* TypeTag.serialize.
SerTypeTag(t) ==
    Uleb128(TypeTagVariant(t.kind)) \o
    (IF t.kind = "vector" THEN SerTypeTag(t.inner)
     ELSE IF t.kind = "struct"
     THEN t.address \o SerBytes(t.module) \o SerBytes(t.name)
          \o SerVector([i \in 1..Len(t.typeArgs) |-> SerTypeTag(t.typeArgs[i])])
     ELSE <<>>)

\* EntryFunction.serialize: each argument with its length prefix
\* (serializeForEntryFunction).
SerEntryFunction(p) ==
    p.moduleAddress \o SerBytes(p.moduleName) \o SerBytes(p.functionName)
    \o SerVector([i \in 1..Len(p.typeArgs) |-> SerTypeTag(p.typeArgs[i])])
    \o SerVector([i \in 1..Len(p.args) |-> SerBytes(p.args[i])])

\* One script argument: variant index, then its bytes (length-prefixed for
\* the U8 vector, 0/1 for a bool).
SerScriptArg(a) ==
    Uleb128(a.variant) \o
    (IF a.variant = 4 THEN SerBytes(a.value)
     ELSE IF a.variant = 5 THEN <<IF a.value THEN 1 ELSE 0>>
     ELSE a.value)

\* TransactionPayload.serialize: variant index, then the payload.
SerPayload(p) ==
    IF p.kind = "script"
    THEN <<0>> \o SerBytes(p.bytecode)
         \o SerVector([i \in 1..Len(p.typeArgs) |-> SerTypeTag(p.typeArgs[i])])
         \o SerVector([i \in 1..Len(p.args) |-> SerScriptArg(p.args[i])])
    ELSE IF p.kind = "entryFunction" THEN <<2>> \o SerEntryFunction(p)
    ELSE <<3>> \o p.multisigAddress \o
         (IF p.hasPayload THEN <<1, 0>> \o SerEntryFunction(p.entryFunction)
          ELSE <<0>>)

\* RawTransaction.serialize.
SerRawTransaction(tx) ==
    tx.sender \o ToLittleEndian(tx.sequence_number, 8) \o SerPayload(tx.payload)
    \o ToLittleEndian(tx.max_gas_amount, 8)
    \o ToLittleEndian(tx.gas_unit_price, 8)
    \o ToLittleEndian(tx.expiration_timestamp_secs, 8)
    \o <<tx.chain_id>>

\* The fee payer extension: false, or true and the address.
SerFeePayer(feePayer) ==
    IF feePayer = NoAddress THEN <<0>> ELSE <<1>> \o feePayer

\* SimpleTransaction.serialize.
SerSimpleTransaction(tx, feePayer) ==
    SerRawTransaction(tx) \o SerFeePayer(feePayer)

\* MultiAgentTransaction.serialize: the secondary signer addresses come
\* between the raw transaction and the fee payer extension.
SerMultiAgentTransaction(tx, secondary, feePayer) ==
    SerRawTransaction(tx) \o SerVector(secondary) \o SerFeePayer(feePayer)

(***************************************************************************)
(* decodeTransaction: argument decoders.                                   *)
(***************************************************************************)
\* MoveVector.deserialize(deserializer, U8): ULEB128 length, then that
\* many U8 values.
MoveVectorU8Deserialize(bs, pos) == Deserialize("MoveVectorU8", bs, pos)

RECURSIVE TwoLevelLoop(_, _, _, _)
\* A loop that leaves the empty vectors out.
TwoLevelPushSkipEmpty(bs, n, values, v) ==
    IF ~v.ok THEN v
    ELSE IF v.val = <<>> THEN TwoLevelLoop(bs, v.pos, n - 1, values)
    ELSE TwoLevelLoop(bs, v.pos, n - 1, Append(values, v.val))

\* TwoLevelMoveVector.deserialize, the loop:
\* values.push(MoveVector.deserialize(deserializer, cls)); v is the vector
\* read at pos.
TwoLevelPush(bs, n, values, v) ==
    IF v.ok THEN TwoLevelLoop(bs, v.pos, n - 1, Append(values, v.val)) ELSE v

TwoLevelLoop(bs, pos, n, values) ==
    IF n = 0 THEN Ok(values, pos)
    ELSE TwoLevelPush(bs, n, values, MoveVectorU8Deserialize(bs, pos))

\* TwoLevelMoveVector.deserialize: ULEB128 length, then that many vectors.
TwoLevelMoveVectorDeserialize(bs, pos) ==
    LET length == ReadUleb128(bs, pos)
    IN IF length.ok THEN TwoLevelLoop(bs, length.pos, length.val, <<>>)
       ELSE length

\* convertMoveVectorU8ToHex.
ConvertMoveVectorU8ToHex(values) == "0x" \o BytesToHex(values)

\* A decoded argument: a string, or an array of strings.
StringValue(str) == [isArray |-> FALSE, items |-> <<str>>]
ArrayValue(strs) == [isArray |-> TRUE, items |-> strs]

\* argumentDecoders: function name -> the decoders of its arguments, in
\* order.
ArgumentDecoders ==
    [upgradePackage |-> <<"address", "vectorU8", "vectorVectorU8">>]

\* (bytes) => AccountAddress.deserialize(new Deserializer(bytes)).toString(),
\* a being the address read.
AddressDecoded(a) ==
    IF a.ok THEN Ok(StringValue(AddressToString(a.val)), a.pos) ELSE a

\* (bytes) => convertMoveVectorU8ToHex(MoveVector.deserialize(..., U8)), v
\* being the vector read.
VectorU8Decoded(v) ==
    IF v.ok THEN Ok(StringValue(ConvertMoveVectorU8ToHex(v.val)), v.pos) ELSE v

\* (bytes) => TwoLevelMoveVector.deserialize(..., U8).values
\*                .map(convertMoveVectorU8ToHex), v being the vectors read.
VectorVectorU8Decoded(v) ==
    IF v.ok
    THEN Ok(ArrayValue([i \in 1..Len(v.val) |->
                          ConvertMoveVectorU8ToHex(v.val[i])]), v.pos)
    ELSE v

\* One decoder of the registry applied to the raw bytes of an argument.
ApplyDecoder(decoder, bytes) ==
    IF decoder = "address" THEN AddressDecoded(ReadAddress(bytes, 1))
    ELSE IF decoder = "vectorU8"
    THEN VectorU8Decoded(MoveVectorU8Deserialize(bytes, 1))
    ELSE VectorVectorU8Decoded(TwoLevelMoveVectorDeserialize(bytes, 1))

\* The decoder used for the argument at index i (1-based here, i - 1 in the
\* source): argumentDecoders[functionName][i], undefined past the list.
DecoderAt(functionName, i) ==
    LET ds == ArgumentDecoders[functionName]
    IN IF i <= Len(ds) THEN <<ds[i]>> ELSE <<>>

\* The result of the map over the arguments: the decoded values, or the
\* error thrown, and the decoders called (applied).
Mapped(ok, err, val, pos, applied) ==
    [ok |-> ok, err |-> err, val |-> val, pos |-> pos, applied |-> applied]

RECURSIVE MapDecoders(_, _, _, _, _)
\* A map that puts each decoded value in front of the ones before it.
MapCollectReversed(functionName, rawArgs, i, acc, applied, r) ==
    IF r.ok
    THEN MapDecoders(functionName, rawArgs, i + 1, <<r.val>> \o acc, applied)
    ELSE Mapped(FALSE, r.err, <<>>, r.pos, applied)

\* One call of the map's callback: r is what the decoder at index i returned.
MapCollect(functionName, rawArgs, i, acc, applied, r) ==
    IF r.ok
    THEN MapDecoders(functionName, rawArgs, i + 1, Append(acc, r.val), applied)
    ELSE Mapped(FALSE, r.err, <<>>, r.pos, applied)

\* txPayloadArguments.map((arg, i) => argumentDecoders[functionName][i](arg.value)):
\* one call per raw argument, in order; calling the undefined decoder past
\* the end of the list throws a TypeError.
MapDecoders(functionName, rawArgs, i, acc, applied) ==
    IF i > Len(rawArgs) THEN Mapped(TRUE, "", acc, 0, applied)
    ELSE IF DecoderAt(functionName, i) = <<>>
    THEN Mapped(FALSE, "TypeError", <<>>, 0, applied)
    ELSE MapCollect(functionName, rawArgs, i, acc,
                    Append(applied, DecoderAt(functionName, i)[1]),
                    ApplyDecoder(DecoderAt(functionName, i)[1], rawArgs[i]))

\* A raw map that returns the arguments last to first.
MapRawHexReversed(rawArgs) ==
    [i \in 1..Len(rawArgs) |->
        StringValue(HexToString(rawArgs[Len(rawArgs) + 1 - i]))]

\* txPayloadArguments.map((arg) => arg.bcsToHex().toString()): the raw
\* bytes of each argument, without length prefix, as 0x-hex.
MapRawHex(rawArgs) ==
    [i \in 1..Len(rawArgs) |-> StringValue(HexToString(rawArgs[i]))]

\* functionName != null && Object.keys(argumentDecoders).includes(functionName);
\* the optional functionName is <<>> when absent, <<name>> when given.
IsArgDecoderSupportedForFunction(functionName) ==
    functionName # <<>> /\ functionName[1] \in DOMAIN ArgumentDecoders

(***************************************************************************)
(* decodeTransaction.                                                      *)
(***************************************************************************)
\* REPOSITORY_ROOT and path.join(REPOSITORY_ROOT, output).
RepositoryRoot == "/repo"
PathJoin(root, output) == root \o "/" \o output

\* A record whose maxGasAmount and gasUnitPrice take each other's value.
DecodedTxSwapped(tx, args) ==
    LET raw == tx.rawTransaction
        txPayload == raw.payload
    IN [sender |-> AddressToString(raw.sender),
        sequenceNumber |-> ToString(raw.sequence_number),
        maxGasAmount |-> ToString(raw.gas_unit_price),
        gasUnitPrice |-> ToString(raw.max_gas_amount),
        expirationTimestampSecs |-> ToString(raw.expiration_timestamp_secs),
        chainId |-> ToString(raw.chain_id),
        feePayer |-> IF tx.feePayerAddress = NoAddress THEN <<>>
                     ELSE <<AddressToString(tx.feePayerAddress)>>,
        payload |->
            [function |-> AddressToString(txPayload.moduleAddress) \o "::"
                          \o BytesToStr(txPayload.moduleName) \o "::"
                          \o BytesToStr(txPayload.functionName),
             typeArgs |-> [i \in 1..Len(txPayload.typeArgs) |->
                             TypeTagToString(txPayload.typeArgs[i])],
             args |-> args]]

\* The decodedTx object literal; feePayer is <<>> when undefined.
DecodedTx(tx, args) ==
    LET raw == tx.rawTransaction
        txPayload == raw.payload
    IN [sender |-> AddressToString(raw.sender),
        sequenceNumber |-> ToString(raw.sequence_number),
        maxGasAmount |-> ToString(raw.max_gas_amount),
        gasUnitPrice |-> ToString(raw.gas_unit_price),
        expirationTimestampSecs |-> ToString(raw.expiration_timestamp_secs),
        chainId |-> ToString(raw.chain_id),
        feePayer |-> IF tx.feePayerAddress = NoAddress THEN <<>>
                     ELSE <<AddressToString(tx.feePayerAddress)>>,
        payload |->
            [function |-> AddressToString(txPayload.moduleAddress) \o "::"
                          \o BytesToStr(txPayload.moduleName) \o "::"
                          \o BytesToStr(txPayload.functionName),
             typeArgs |-> [i \in 1..Len(txPayload.typeArgs) |->
                             TypeTagToString(txPayload.typeArgs[i])],
             args |-> args]]

\* JSON.stringify(decodedTx, null, 2): a key whose value is undefined is
\* left out of the document.
JsonStringify(d) ==
    LET base == [sender |-> d.sender, sequenceNumber |-> d.sequenceNumber,
                 maxGasAmount |-> d.maxGasAmount, gasUnitPrice |-> d.gasUnitPrice,
                 expirationTimestampSecs |-> d.expirationTimestampSecs,
                 chainId |-> d.chainId, payload |-> d.payload]
    IN IF d.feePayer = <<>> THEN base
       ELSE base @@ [feePayer |-> d.feePayer[1]]

\* A failure that leaves a truncated file behind.
DecodeFailedPartial(err, pos, events, applied) ==
    [status |-> "failed", error |-> err, errorPos |-> pos,
     events |-> Append(events, "fs:writeFileSync"), applied |-> applied,
     writes |-> <<[path |-> "/repo/decoded.json", data |-> <<>>]>>,
     saved |-> TRUE]

\* What one call of decodeTransaction did: how it ended, the console.log
\* and fs.writeFileSync calls it made in order (events), the decoders it
\* called (applied), the arguments of its writeFileSync calls (writes), and
\* whether the file was saved.
DecodeFailed(err, pos, events, applied) ==
    [status |-> "failed", error |-> err, errorPos |-> pos, events |-> events,
     applied |-> applied, writes |-> <<>>, saved |-> FALSE]

\* The tail of decodeTransaction once the arguments are decoded: build the
\* record, join the path, log, write. fsOk tells whether writeFileSync
\* returns (TRUE) or throws.
DecodeWrite(tx, args, output, events, applied, fsOk) ==
    LET decodedTx == DecodedTx(tx, args)
        outputFilePath == PathJoin(RepositoryRoot, output)
        call == [path |-> outputFilePath, data |-> JsonStringify(decodedTx)]
        ev == events \o <<"log:success", "fs:writeFileSync">>
    IN [status |-> IF fsOk THEN "ok" ELSE "failed",
        error |-> IF fsOk THEN "" ELSE "IOError",
        errorPos |-> 0, events |-> ev, applied |-> applied,
        writes |-> <<call>>, saved |-> fsOk]

\* Hex.fromHexInput(txBytes).toUint8Array(), then
\* SimpleTransaction.deserialize(new Deserializer(...)).
DecodeDeserialize(txBytes) ==
    LET h == FromHexString(txBytes)
    IN IF h.ok THEN SimpleTransactionDeserialize(h.val) ELSE h

\* The end of decodeTransaction with decoders: m is the result of the map.
DecodeMapped(tx, m, output, fsOk) ==
    IF m.ok THEN DecodeWrite(tx, m.val, output, <<>>, m.applied, fsOk)
    ELSE DecodeFailed(m.err, m.pos, <<>>, m.applied)

\* A decodeTransaction that takes the entry function wrapped in a
\* multisig payload for the payload itself.
DecodeDeserializedUnwrapping(t, output, functionName, fsOk) ==
    IF ~t.ok THEN DecodeFailed(t.err, t.pos, <<>>, <<>>)
    ELSE IF t.val.rawTransaction.payload.kind = "script"
    THEN DecodeFailed("UnsupportedPayloadType", 0, <<>>, <<>>)
    ELSE IF t.val.rawTransaction.payload.kind = "multisig"
    THEN DecodeWrite([t.val EXCEPT !.rawTransaction.payload = @.entryFunction],
                     MapRawHex(t.val.rawTransaction.payload.entryFunction.args),
                     output, <<"log:note">>, <<>>, fsOk)
    ELSE DecodeWrite(t.val, MapRawHex(t.val.rawTransaction.payload.args),
                     output, <<"log:note">>, <<>>, fsOk)

\* A decodeTransaction that picks the decoders from the entry function the
\* envelope names instead of the function name it is given.
DecodeDeserializedByEnvelope(t, output, functionName, fsOk) ==
    IF ~t.ok THEN DecodeFailed(t.err, t.pos, <<>>, <<>>)
    ELSE IF t.val.rawTransaction.payload.kind # "entryFunction"
    THEN DecodeFailed("UnsupportedPayloadType", 0, <<>>, <<>>)
    ELSE IF /\ IsArgDecoderSupportedForFunction(functionName)
            /\ BytesToStr(t.val.rawTransaction.payload.functionName)
                   = "upgrade_package"
    THEN DecodeMapped(t.val,
                      MapDecoders(functionName[1],
                                  t.val.rawTransaction.payload.args, 1,
                                  <<>>, <<>>),
                      output, fsOk)
    ELSE DecodeWrite(t.val, MapRawHex(t.val.rawTransaction.payload.args),
                     output, <<"log:note">>, <<>>, fsOk)

\* decodeTransaction after the deserialization: the payload check, the
\* choice between the decoders and the raw hex, the note logged in the
\* second case.
DecodeDeserialized(t, output, functionName, fsOk) ==
    IF ~t.ok THEN DecodeFailed(t.err, t.pos, <<>>, <<>>)
    ELSE IF t.val.rawTransaction.payload.kind # "entryFunction"
    THEN DecodeFailed("UnsupportedPayloadType", 0, <<>>, <<>>)
    ELSE IF IsArgDecoderSupportedForFunction(functionName)
    THEN DecodeMapped(t.val,
                      MapDecoders(functionName[1],
                                  t.val.rawTransaction.payload.args, 1,
                                  <<>>, <<>>),
                      output, fsOk)
    ELSE DecodeWrite(t.val, MapRawHex(t.val.rawTransaction.payload.args),
                     output, <<"log:note">>, <<>>, fsOk)

\* decodeTransaction({txBytes, output, functionName}).
DecodeTransaction(txBytes, output, functionName, fsOk) ==
    DecodeDeserialized(DecodeDeserialize(txBytes), output, functionName, fsOk)

(***************************************************************************)
(* Inputs: the transactions the scripts are given.                         *)
(***************************************************************************)
SenderAddress == Rep(171, AddressLength)
PackageAddress == Rep(205, AddressLength)
FeePayerAddress == Rep(239, AddressLength)
SecondaryAddress == Rep(17, AddressLength)
\* 0x1, a special address.
FrameworkAddress == Rep(0, AddressLength - 1) \o <<1>>

\* UTF-8 bytes of the identifiers used.
IdUpgradable == <<117, 112, 103, 114, 97, 100, 97, 98, 108, 101>>
IdUpgradePackage ==
    <<117, 112, 103, 114, 97, 100, 101, 95, 112, 97, 99, 107, 97, 103, 101>>
IdCoin == <<99, 111, 105, 110>>
IdTransfer == <<116, 114, 97, 110, 115, 102, 101, 114>>

\* The three arguments of upgrade_package, BCS-serialized: an address, a
\* vector<u8>, a vector<vector<u8>>.
ArgResourceAcct == PackageAddress
ArgMetadata == SerBytes(<<1, 2, 3>>)
ArgCode == SerVector(<<SerBytes(<<4, 5>>), SerBytes(<<>>), SerBytes(<<6>>)>>)

\* The transactions that carry the three arguments of upgrade_package under
\* another module address, module name or function name.
RenamedUpgrades == {"up3At0x1", "up3InCoin", "up3AsTransfer"}

\* Raw argument lists, by name.
RawArgsOf(name) ==
    CASE name \in {"up3"} \cup RenamedUpgrades ->
             <<ArgResourceAcct, ArgMetadata, ArgCode>>
      [] name = "up2" -> <<ArgResourceAcct, ArgMetadata>>
      [] name = "up4" -> <<ArgResourceAcct, ArgMetadata, ArgCode, <<7>>>>
      [] name = "up0" -> <<>>
      [] name = "upShortAddress" ->
             <<SubSeq(PackageAddress, 1, AddressLength - 1), ArgMetadata, ArgCode>>
      [] name = "upShortVector" ->
             <<ArgResourceAcct, ArgMetadata, <<2>> \o SerBytes(<<4, 5>>)>>
      [] OTHER -> <<FrameworkAddress, ToLittleEndian(1000, 8)>>

CoinTypeTag ==
    [kind |-> "struct", address |-> FrameworkAddress, module |-> IdCoin,
     name |-> IdCoin, typeArgs |-> <<[kind |-> "vector", inner |-> [kind |-> "u8"]]>>]

\* The payload of a named transaction.
PayloadOf(name) ==
    CASE name = "script" ->
             [kind |-> "script", bytecode |-> <<161, 28>>, typeArgs |-> <<>>,
              args |-> <<[variant |-> 4, value |-> <<9>>],
                         [variant |-> 5, value |-> TRUE]>>]
      [] name = "multisig" ->
             [kind |-> "multisig", multisigAddress |-> PackageAddress,
              hasPayload |-> TRUE,
              entryFunction |->
                  [kind |-> "entryFunction", moduleAddress |-> FrameworkAddress,
                   moduleName |-> IdCoin, functionName |-> IdTransfer,
                   typeArgs |-> <<>>, args |-> RawArgsOf("transfer")]]
      [] name = "transfer" ->
             [kind |-> "entryFunction", moduleAddress |-> FrameworkAddress,
              moduleName |-> IdCoin, functionName |-> IdTransfer,
              typeArgs |-> <<CoinTypeTag, [kind |-> "u64"]>>,
              args |-> RawArgsOf("transfer")]
      [] name \in RenamedUpgrades ->
             [kind |-> "entryFunction",
              moduleAddress |-> IF name = "up3At0x1" THEN FrameworkAddress
                                ELSE PackageAddress,
              moduleName |-> IF name = "up3InCoin" THEN IdCoin ELSE IdUpgradable,
              functionName |-> IF name = "up3AsTransfer" THEN IdTransfer
                               ELSE IdUpgradePackage,
              typeArgs |-> <<>>, args |-> RawArgsOf(name)]
      [] OTHER ->
             [kind |-> "entryFunction", moduleAddress |-> PackageAddress,
              moduleName |-> IdUpgradable, functionName |-> IdUpgradePackage,
              typeArgs |-> <<>>, args |-> RawArgsOf(name)]

\* The raw transaction of a named transaction: the header is that of the
\* tests' fixture, with distinct values in every field.
RawTransactionOf(name) ==
    [sender |-> SenderAddress, sequence_number |-> 20,
     payload |-> PayloadOf(name), max_gas_amount |-> 1000000,
     gas_unit_price |-> 500, expiration_timestamp_secs |-> 1700000000,
     chain_id |-> 4]

\* The serialized envelope: a named transaction in one of the shapes.
EnvelopeBytes(env) ==
    LET tx == RawTransactionOf(env.tx) IN
    CASE env.shape = "plain" -> SerSimpleTransaction(tx, NoAddress)
      [] env.shape = "feePayer" -> SerSimpleTransaction(tx, FeePayerAddress)
      [] env.shape = "multiAgent0" ->
             SerMultiAgentTransaction(tx, <<>>, NoAddress)
      [] env.shape = "multiAgent1" ->
             SerMultiAgentTransaction(tx, <<SecondaryAddress>>, NoAddress)
      [] env.shape = "multiAgent2" ->
             SerMultiAgentTransaction(tx, <<SecondaryAddress, PackageAddress>>,
                                      FeePayerAddress)
      [] OTHER -> SerRawTransaction(tx) \o <<7>>

\* The --tx-bytes string: the hex of the envelope, possibly damaged.
EnvelopeHex(env) ==
    LET bs == EnvelopeBytes(env)
        ds == BytesToNibbles(bs)
    IN CASE env.damage = "none" -> HexInputOf(bs)
         [] env.damage = "truncated" -> HexInputOf(SubSeq(bs, 1, Len(bs) - 1))
         [] env.damage = "oddLength" ->
                [prefix |-> TRUE, digits |-> SubSeq(ds, 1, Len(ds) - 1)]
         [] env.damage = "badCharacter" ->
                [prefix |-> TRUE, digits |-> <<16>> \o Tail(ds)]
         [] OTHER -> [prefix |-> FALSE, digits |-> <<>>]

Damages == {"truncated", "oddLength", "badCharacter", "empty"}

\* The envelopes given to decodeTransaction: every transaction in the plain
\* shape, the other shapes and the damaged strings for some of them.
Envelopes ==
    [tx : {"up3", "up2", "up4", "up0", "upShortAddress", "upShortVector",
           "transfer", "script", "multisig"} \cup RenamedUpgrades,
     shape : {"plain"}, damage : {"none"}]
    \cup [tx : {"up3", "transfer"}, shape : {"feePayer"}, damage : {"none"}]
    \cup [tx : {"up3"},
          shape : {"multiAgent0", "multiAgent1", "multiAgent2", "unknownShape"},
          damage : {"none"}]
    \cup [tx : {"up3"}, shape : {"plain"}, damage : Damages]

\* The optional --function-name: absent, a key of the registry, no key.
FunctionNames == {<<>>, <<"upgradePackage">>, <<"transfer">>}

\* The calls of decodeTransaction: fs.writeFileSync returns, or throws for
\* some of them.
DecodeInputs ==
    [env : Envelopes, functionName : FunctionNames, output : {"decoded.json"},
     fsOk : {TRUE}]
    \cup [env : {[tx |-> "up3", shape |-> "plain", damage |-> "none"]},
          functionName : FunctionNames, output : {"decoded.json"},
          fsOk : {FALSE}]

\* The outcome of decodeTransaction on every input, computed once.
DecodeOutcomes ==
    [i \in DecodeInputs |->
        DecodeTransaction(EnvelopeHex(i.env), i.output, i.functionName, i.fsOk)]

(***************************************************************************)
(* executeTransaction: public keys, signatures, authenticators.            *)
(***************************************************************************)
\* The signer's public key: MultiKey.deserialize when multiSig is set,
\* Ed25519PublicKey.deserialize otherwise.
SignerPublicKeyDeserialize(multiSig, publicKey) ==
    LET h == FromHexString(publicKey) IN
    IF ~h.ok THEN h
    ELSE IF multiSig THEN Deserialize("MultiKey", h.val, 1)
    ELSE Deserialize("Ed25519PublicKey", h.val, 1)

\* An authenticator that is of the single-key variant whatever the flag.
NewAccountAuthenticatorSingle(multiSig, signerPublicKey, g) ==
    IF ~g.ok THEN g
    ELSE Ok([variant |-> "ed25519", public_key |-> signerPublicKey,
             signature |-> g.val], g.pos)

\* The sender authenticator: AccountAuthenticatorMultiKey over the
\* deserialized MultiKeySignature when multiSig is set,
\* AccountAuthenticatorEd25519 over the Ed25519Signature otherwise. The
\* constructors store the key and the signature as given.
NewAccountAuthenticator(multiSig, signerPublicKey, g) ==
    IF ~g.ok THEN g
    ELSE IF multiSig
    THEN Ok([variant |-> "multiKey", public_key |-> signerPublicKey,
             signatures |-> g.val], g.pos)
    ELSE Ok([variant |-> "ed25519", public_key |-> signerPublicKey,
             signature |-> g.val], g.pos)

\* MultiKeySignature.deserialize or Ed25519Signature.deserialize over
\* Hex.fromHexInput(signature).
SignatureDeserialize(multiSig, signature) ==
    LET h == FromHexString(signature) IN
    IF ~h.ok THEN h
    ELSE IF multiSig THEN Deserialize("MultiKeySignature", h.val, 1)
    ELSE Deserialize("Ed25519Signature", h.val, 1)

SenderAuthenticator(multiSig, signerPublicKey, signature) ==
    NewAccountAuthenticator(multiSig, signerPublicKey,
                            SignatureDeserialize(multiSig, signature))

(***************************************************************************)
(* executeTransaction: the synchronous part, up to the first network call. *)
(***************************************************************************)
\* How executeTransaction stands after running from its first statement to
\* its first await or throw: where it is (pc), the console.log and network
\* calls made so far in order (events), the arguments of the network call
\* it waits for (request).
ExecFailed(err, events) ==
    [pc |-> "failed", error |-> err, events |-> events, request |-> <<>>]

ExecAwait(pc, events, request) ==
    [pc |-> pc, error |-> "", events |-> events, request |-> <<request>>]

\* The submit call, a being the sender authenticator built before it.
ExecuteSubmit(transaction, a) ==
    IF ~a.ok THEN ExecFailed(a.err, <<"log:Executing transaction...">>)
    ELSE ExecAwait("submitting",
                   <<"log:Executing transaction...", "net:submit">>,
                   [transaction |-> transaction, senderAuthenticator |-> a.val])

\* A commit that looks for the signature only after calling submit.
ExecuteCommitLateCheck(transaction, signerPublicKey, signature, multiSig) ==
    IF signature = <<>>
    THEN ExecFailed("MissingSignature",
                    <<"log:Executing transaction...", "net:submit">>)
    ELSE ExecuteSubmit(transaction,
                       SenderAuthenticator(multiSig, signerPublicKey,
                                           signature[1]))

\* The else branch of if (dryRun): the signature check, the authenticator,
\* the submit call. The optional signature is <<>> when absent.
ExecuteCommit(transaction, signerPublicKey, signature, multiSig) ==
    IF signature = <<>>
    THEN ExecFailed("MissingSignature", <<"log:Executing transaction...">>)
    ELSE ExecuteSubmit(transaction,
                       SenderAuthenticator(multiSig, signerPublicKey,
                                           signature[1]))

\* The then branch of if (dryRun): the simulate call.
ExecuteDryRun(transaction, signerPublicKey) ==
    ExecAwait("simulating",
              <<"log:Dry running transaction...", "net:simulate">>,
              [transaction |-> transaction, signerPublicKey |-> signerPublicKey])

\* An executeTransaction that commits whenever it is given a signature.
ExecuteDeserializedEager(t, k, signature, multiSig, dryRun) ==
    IF ~t.ok THEN ExecFailed(t.err, <<>>)
    ELSE IF ~k.ok THEN ExecFailed(k.err, <<>>)
    ELSE IF dryRun /\ signature = <<>> THEN ExecuteDryRun(t.val, k.val)
    ELSE ExecuteCommit(t.val, k.val, signature, multiSig)

\* executeTransaction once the transaction (t) and the public key (k) are
\* deserialized, in this order.
ExecuteDeserialized(t, k, signature, multiSig, dryRun) ==
    IF ~t.ok THEN ExecFailed(t.err, <<>>)
    ELSE IF ~k.ok THEN ExecFailed(k.err, <<>>)
    ELSE IF dryRun THEN ExecuteDryRun(t.val, k.val)
    ELSE ExecuteCommit(t.val, k.val, signature, multiSig)

\* executeTransaction({rpcUrl, txBytes, publicKey, signature, multiSig, dryRun})
\* up to its first await.
ExecuteTransaction(txBytes, publicKey, signature, multiSig, dryRun) ==
    ExecuteDeserialized(DecodeDeserialize(txBytes),
                        SignerPublicKeyDeserialize(multiSig, publicKey),
                        signature, multiSig, dryRun)

(***************************************************************************)
(* Inputs of executeTransaction: keys and signatures of the sender.        *)
(***************************************************************************)
KeyA == Rep(33, Ed25519KeyLength)
KeyB == Rep(34, Ed25519KeyLength)
KeyC == Rep(35, Ed25519KeyLength)

RECURSIVE ByteSum(_)
\* Sum of the bytes modulo 256: stands for the digest of a message.
ByteSum(bs) ==
    IF bs = <<>> THEN 0
    ELSE IF Len(bs) = 1 THEN bs[1]
    ELSE LET half == Len(bs) \div 2
         IN (ByteSum(SubSeq(bs, 1, half))
             + ByteSum(SubSeq(bs, half + 1, Len(bs)))) % 256

\* The hash of a transaction, as computed from its bytes.
TransactionDigest(transaction) ==
    ByteSum(SerRawTransaction(transaction.rawTransaction))

\* The transactions executeTransaction is given, and their hashes, computed
\* once.
KnownTransactions ==
    {[rawTransaction |-> RawTransactionOf(name), feePayerAddress |-> NoAddress] :
        name \in {"transfer", "up3"}}

TransactionHashes == [t \in KnownTransactions |-> TransactionDigest(t)]

\* The hash of a transaction.
TransactionHash(transaction) == TransactionHashes[transaction]

\* The signature of a key over a transaction: stands for Ed25519 signing,
\* different for different keys and different transactions.
SignatureOf(key, transaction) ==
    Rep((key[1] + TransactionHash(transaction)) % 256, Ed25519SignatureLength)

\* The transaction the sender signed (aptos.transaction.build.simple in the
\* tests' fixture, a coin transfer).
SignedTransaction ==
    [rawTransaction |-> RawTransactionOf("transfer"),
     feePayerAddress |-> NoAddress]

\* The bitmap naming a set of member indices.
BitmapOf(indices) ==
    [j \in 1..BitmapLength |->
        LET Bit(k) == IF (8 * (j - 1) + k) \in indices THEN 2 ^ (7 - k) ELSE 0
        IN Bit(0) + Bit(1) + Bit(2) + Bit(3) + Bit(4) + Bit(5) + Bit(6) + Bit(7)]

\* MultiKey.serialize.
SerMultiKey(keys, required) ==
    SerVector([i \in 1..Len(keys) |-> <<0>> \o SerBytes(keys[i])])
    \o <<required>>

\* MultiKeySignature.serialize.
SerMultiKeySignature(signatures, bitmap) ==
    SerVector([i \in 1..Len(signatures) |-> <<0>> \o SerBytes(signatures[i])])
    \o SerBytes(bitmap)

\* The --public-key strings, by name.
PublicKeyHex(name) ==
    CASE name = "ed25519" -> HexInputOf(SerBytes(KeyA))
      [] name = "multiKey2of3" ->
             HexInputOf(SerMultiKey(<<KeyA, KeyB, KeyC>>, 2))
      [] OTHER ->
             HexInputOf(SerBytes(SubSeq(KeyA, 1, Ed25519KeyLength - 1)))

\* The --signature strings, by name; <<>> when the option is not given.
SignatureHex(name) ==
    CASE name = "absent" -> <<>>
      [] name = "ed25519" ->
             <<HexInputOf(SerBytes(SignatureOf(KeyA, SignedTransaction)))>>
      [] name = "multiKey01" ->
             <<HexInputOf(SerMultiKeySignature(
                   <<SignatureOf(KeyA, SignedTransaction),
                     SignatureOf(KeyB, SignedTransaction)>>,
                   BitmapOf({0, 1})))>>
      \* one signature, of member 0, for a key that requires two
      [] name = "multiKey0" ->
             <<HexInputOf(SerMultiKeySignature(
                   <<SignatureOf(KeyA, SignedTransaction)>>, BitmapOf({0})))>>
      \* two signatures, of members 0 and 5, for a key of three members
      [] name = "multiKey05" ->
             <<HexInputOf(SerMultiKeySignature(
                   <<SignatureOf(KeyA, SignedTransaction),
                     SignatureOf(KeyB, SignedTransaction)>>,
                   BitmapOf({0, 5})))>>
      [] OTHER ->
             <<HexInputOf(SerBytes(Rep(9, Ed25519SignatureLength - 1)))>>

PublicKeyNames == {"ed25519", "multiKey2of3", "shortKey"}
SignatureNames == {"absent", "ed25519", "multiKey01", "shortSignature"}

\* The calls of executeTransaction: every key, signature and flag for the
\* transaction the sender signed; another transaction and a damaged string
\* with the single key.
ExecInputs ==
    [env : {[tx |-> "transfer", shape |-> "plain", damage |-> "none"]},
     publicKey : PublicKeyNames, signature : SignatureNames,
     multiSig : BOOLEAN, dryRun : BOOLEAN]
    \cup [env : {[tx |-> "up3", shape |-> "plain", damage |-> "none"],
                 [tx |-> "transfer", shape |-> "plain", damage |-> "truncated"],
                 [tx |-> "transfer", shape |-> "plain", damage |-> "empty"]},
          publicKey : {"ed25519"}, signature : {"absent", "ed25519"},
          multiSig : {FALSE}, dryRun : BOOLEAN]
    \cup [env : {[tx |-> "transfer", shape |-> "plain", damage |-> "none"]},
          publicKey : {"multiKey2of3"}, signature : {"multiKey0", "multiKey05"},
          multiSig : {TRUE}, dryRun : {FALSE}]

\* executeTransaction up to its first await on every input, computed once.
ExecOutcomes ==
    [i \in ExecInputs |->
        ExecuteTransaction(EnvelopeHex(i.env), PublicKeyHex(i.publicKey),
                           SignatureHex(i.signature), i.multiSig, i.dryRun)]

(***************************************************************************)
(* The network behind the Aptos client, as the script observes it.         *)
(***************************************************************************)
\* The member index of the j-th signature: the j-th smallest index of the
\* bitmap.
SignerIndex(indices, j) ==
    CHOOSE i \in indices : Cardinality({k \in indices : k < i}) = j - 1

\* Whether the network accepts the authenticator for the transaction.
AuthenticatorVerifies(auth, transaction) ==
    IF auth.variant = "ed25519"
    THEN /\ auth.public_key.variant = "ed25519"
         /\ auth.signature.signature = SignatureOf(auth.public_key.key, transaction)
    ELSE LET indices == BitmapIndices(auth.signatures.bitmap)
             sigs == auth.signatures.signatures
         IN /\ auth.public_key.variant = "multiKey"
            /\ \A i \in indices : i < Len(auth.public_key.publicKeys)
            /\ Len(sigs) >= auth.public_key.signaturesRequired
            /\ \A j \in 1..Len(sigs) :
                   sigs[j] = SignatureOf(
                       auth.public_key.publicKeys[SignerIndex(indices, j) + 1],
                       transaction)

(***************************************************************************)
(* State.                                                                  *)
(***************************************************************************)
VARIABLES
    runs,     \* number of commands invoked so far
    dec,      \* the decodeTransaction call of the current command, if any
    exec,     \* the executeTransaction call of the current command, if any
    mempool,  \* hashes of the transactions the network accepted
    chain,    \* hashes of the transactions included on chain
    vecInput, \* the byte strings given to the vector encoder
    vecResult,\* what the two-level vector decoder made of their encoding
    calls,    \* the concurrent calls of one process, by call
    registry  \* the argumentDecoders object of that process

vars == <<runs, dec, exec, mempool, chain, vecInput, vecResult, calls, registry>>

\* The state of the commands run one after the other, of the vector
\* decoder run on its own, and of one process running several calls.
cmdVars == <<runs, dec, exec>>
vecVars == <<vecInput, vecResult>>
concVars == <<calls, registry>>

NoDecode == [status |-> "none"]
NoExec == [pc |-> "none"]

\* An executeTransaction call is suspended at an await.
Running == exec.pc \in {"simulating", "submitting", "waiting"}

Init ==
    /\ runs = 0
    /\ dec = NoDecode
    /\ exec = NoExec
    /\ mempool = {}
    /\ chain = {}
    /\ vecInput = <<>>
    /\ vecResult = <<>>
    /\ calls = <<>>
    /\ registry = ArgumentDecoders

\* decode-transaction: one call of decodeTransaction, from its first
\* statement to its return or throw.
Decode(i) ==
    /\ ~Running
    /\ runs < MaxRuns
    /\ runs' = runs + 1
    /\ dec' = DecodeOutcomes[i] @@ [input |-> i]
    /\ exec' = NoExec
    /\ UNCHANGED <<mempool, chain>>
    /\ UNCHANGED <<vecVars, concVars>>

\* execute-transaction: executeTransaction from its first statement to its
\* first await or throw.
Execute(i) ==
    /\ ~Running
    /\ runs < MaxRuns
    /\ runs' = runs + 1
    /\ exec' = ExecOutcomes[i] @@ [input |-> i, produced |-> <<>>, result |-> <<>>]
    /\ dec' = NoDecode
    /\ UNCHANGED <<mempool, chain>>
    /\ UNCHANGED <<vecVars, concVars>>

\* A return of nothing.
ReturnUndefined(result) == <<>>

\* What executeTransaction returns for the value the awaited call resolved
\* to: return result.
ReturnValue(result) == <<result>>

\* The continuation of await aptos.transaction.simulate.simple(...): log the
\* result and return it.
SimulateReturn(success) ==
    /\ exec.pc = "simulating"
    /\ LET response == <<[hash |-> TransactionHash(exec.request[1].transaction),
                          success |-> success]>>
       IN exec' = [exec EXCEPT !.pc = "done",
                               !.produced = Append(@, response),
                               !.events = Append(@, "log:result"),
                               !.result = ReturnValue(response)]
    /\ UNCHANGED <<runs, dec, mempool, chain>>
    /\ UNCHANGED <<vecVars, concVars>>

\* A rejected network call that is made once more before the error leaves
\* executeTransaction.
NetworkFailRetried(pc) ==
    /\ exec.pc = pc
    /\ exec' = [exec EXCEPT !.pc = "failed", !.error = "NetworkFailure",
                            !.events = Append(@, exec.events[Len(exec.events)])]

\* A rejected network call: the await throws, the error leaves
\* executeTransaction.
NetworkFail(pc) ==
    /\ exec.pc = pc
    /\ exec' = [exec EXCEPT !.pc = "failed", !.error = "NetworkFailure"]

SimulateFail ==
    /\ NetworkFail("simulating")
    /\ UNCHANGED <<runs, dec, mempool, chain>>
    /\ UNCHANGED <<vecVars, concVars>>

\* A continuation of submit that returns the submitted transaction without
\* waiting for it.
SubmitReturnNoWait ==
    /\ exec.pc = "submitting"
    /\ LET request == exec.request[1]
           hash == TransactionHash(request.transaction)
           initialTxOutput == [hash |-> hash]
       IN /\ hash \notin mempool \cup chain
          /\ AuthenticatorVerifies(request.senderAuthenticator, request.transaction)
          /\ mempool' = mempool \cup {hash}
          /\ exec' = [exec EXCEPT
                        !.pc = "done",
                        !.produced = Append(@, initialTxOutput),
                        !.events = Append(@, "log:result"),
                        !.result = ReturnValue(initialTxOutput)]
    /\ UNCHANGED <<runs, dec, chain>>
    /\ UNCHANGED <<vecVars, concVars>>

\* The continuation of await aptos.transaction.submit.simple(...): the call
\* of aptos.waitForTransaction with the hash submit returned. The network
\* accepts a transaction it has not seen, with an authenticator that
\* verifies.
SubmitReturn ==
    /\ exec.pc = "submitting"
    /\ LET request == exec.request[1]
           hash == TransactionHash(request.transaction)
           initialTxOutput == [hash |-> hash]
       IN /\ hash \notin mempool \cup chain
          /\ AuthenticatorVerifies(request.senderAuthenticator, request.transaction)
          /\ mempool' = mempool \cup {hash}
          /\ exec' = [exec EXCEPT
                        !.pc = "waiting",
                        !.produced = Append(@, initialTxOutput),
                        !.events = Append(@, "net:waitForTransaction"),
                        !.request = <<[transactionHash |-> initialTxOutput.hash]>>]
    /\ UNCHANGED <<runs, dec, chain>>
    /\ UNCHANGED <<vecVars, concVars>>

SubmitFail ==
    /\ NetworkFail("submitting")
    /\ UNCHANGED <<runs, dec, mempool, chain>>
    /\ UNCHANGED <<vecVars, concVars>>

\* The continuation of await aptos.waitForTransaction(...): the transaction
\* is included and succeeded; log the result and return it.
WaitReturn ==
    /\ exec.pc = "waiting"
    /\ LET hash == exec.request[1].transactionHash
           response == [hash |-> hash, success |-> TRUE]
       IN /\ hash \in mempool
          /\ mempool' = mempool \ {hash}
          /\ chain' = chain \cup {hash}
          /\ exec' = [exec EXCEPT !.pc = "done",
                                  !.produced = Append(@, response),
                                  !.events = Append(@, "log:result"),
                                  !.result = ReturnValue(response)]
    /\ UNCHANGED <<runs, dec>>
    /\ UNCHANGED <<vecVars, concVars>>

\* aptos.waitForTransaction throws: the wait timed out (included = FALSE),
\* or the transaction was included and aborted on chain.
WaitFail(included) ==
    /\ NetworkFail("waiting")
    /\ LET hash == exec.request[1].transactionHash
       IN IF included /\ hash \in mempool
          THEN mempool' = mempool \ {hash} /\ chain' = chain \cup {hash}
          ELSE UNCHANGED <<mempool, chain>>
    /\ UNCHANGED <<runs, dec>>
    /\ UNCHANGED <<vecVars, concVars>>

Next ==
    \/ \E i \in DecodeInputs : Decode(i)
    \/ \E i \in ExecInputs : Execute(i)
    \/ \E success \in BOOLEAN : SimulateReturn(success)
    \/ SimulateFail
    \/ SubmitReturn
    \/ SubmitFail
    \/ WaitReturn
    \/ \E included \in BOOLEAN : WaitFail(included)

Spec == Init /\ [][Next]_vars

\* Every network call eventually returns or fails: the promise an await of
\* executeTransaction is suspended at is eventually settled.
SimulateSettles == (\E success \in BOOLEAN : SimulateReturn(success)) \/ SimulateFail
SubmitSettles == SubmitReturn \/ SubmitFail
WaitSettles == WaitReturn \/ (\E included \in BOOLEAN : WaitFail(included))

FairSpec ==
    /\ Spec
    /\ WF_vars(SimulateSettles)
    /\ WF_vars(SubmitSettles)
    /\ WF_vars(WaitSettles)

(***************************************************************************)
(* The two-level vector decoder on its own.                                *)
(***************************************************************************)
\* The bytes a byte string is made of, the byte strings, the vectors of byte
\* strings.
ByteValues == {0, 255}
ByteStrings == UNION {[1..n -> ByteValues] : n \in 0..MaxBytes}
VectorInputs == UNION {[1..n -> ByteStrings] : n \in 0..MaxVectors}

\* MoveVector<MoveVector<U8>>.serialize: the ULEB128 number of vectors, then
\* each vector as its ULEB128 length and its bytes.
EncodeVector(values) == SerVector([k \in 1..Len(values) |-> SerBytes(values[k])])

VecInit ==
    /\ vecInput \in VectorInputs
    /\ vecResult = <<>>
    /\ runs = 0
    /\ dec = NoDecode
    /\ exec = NoExec
    /\ mempool = {}
    /\ chain = {}
    /\ calls = <<>>
    /\ registry = ArgumentDecoders

\* TwoLevelMoveVector.deserialize(new Deserializer(arg.value), U8) on the
\* encoding of the vector.
DecodeVector ==
    /\ vecResult = <<>>
    /\ vecResult' = <<TwoLevelMoveVectorDeserialize(EncodeVector(vecInput), 1)>>
    /\ UNCHANGED <<vecInput, cmdVars, mempool, chain, concVars>>

VecNext == DecodeVector

VecSpec == VecInit /\ [][VecNext]_vars

(***************************************************************************)
(* Several calls in one process: decodeTransaction runs from its first     *)
(* statement to its end, executeTransaction is suspended at each await and *)
(* other calls run meanwhile.                                              *)
(***************************************************************************)
\* The calls made concurrently: some of the calls made one after the other.
ConcExecInputs ==
    {i \in ExecInputs :
        /\ i.env.damage = "none"
        /\ i.publicKey = (IF i.multiSig THEN "multiKey2of3" ELSE "ed25519")
        /\ i.signature \in {"absent", IF i.multiSig THEN "multiKey01" ELSE "ed25519"}
        /\ i.dryRun => i.signature = "absent"}

ConcDecodeInputs ==
    {i \in DecodeInputs :
        /\ i.env.tx \in {"up3", "up2", "script"}
        /\ i.env.shape = "plain"
        /\ i.env.damage = "none"
        /\ i.fsOk
        /\ i.functionName \in {<<>>, <<"upgradePackage">>}}

Idle == [kind |-> "idle"]

\* decodeTransaction reading the registry as it is when the call is made: a
\* function name that is no key of it is treated as a missing one.
DecodeUnder(reg, i) ==
    IF i.functionName # <<>> /\ i.functionName[1] \notin DOMAIN reg
    THEN DecodeOutcomes[[i EXCEPT !.functionName = <<>>]]
    ELSE DecodeOutcomes[i]

\* executeTransaction up to its first await, as a call of its own.
ExecStart(i) ==
    ExecOutcomes[i] @@ [kind |-> "execute", input |-> i, produced |-> <<>>,
                        result |-> <<>>, responses |-> <<>>]

\* What the network answers to an awaited call: a value, or a rejection.
Resolved(value) == [ok |-> TRUE, value |-> value]
Rejected == [ok |-> FALSE, value |-> <<>>]

\* The continuation of the await a call is suspended at, given the answer:
\* a rejection is thrown out of executeTransaction; the value of simulate
\* and of waitForTransaction is logged and returned; the hash of the value
\* of submit is given to waitForTransaction.
Resume(call, response) ==
    LET heard == [call EXCEPT !.responses = Append(@, response)] IN
    IF ~response.ok
    THEN [heard EXCEPT !.pc = "failed", !.error = "NetworkFailure"]
    ELSE IF call.pc = "submitting"
    THEN [heard EXCEPT !.pc = "waiting",
                       !.produced = Append(@, response.value),
                       !.events = Append(@, "net:waitForTransaction"),
                       !.request = <<[transactionHash |-> response.value.hash]>>]
    ELSE [heard EXCEPT !.pc = "done",
                       !.produced = Append(@, response.value),
                       !.events = Append(@, "log:result"),
                       !.result = ReturnValue(response.value)]

ConcInit ==
    /\ calls = [c \in 1..MaxCalls |-> Idle]
    /\ registry = ArgumentDecoders
    /\ mempool = {}
    /\ chain = {}
    /\ runs = 0
    /\ dec = NoDecode
    /\ exec = NoExec
    /\ vecInput = <<>>
    /\ vecResult = <<>>

\* A call of decodeTransaction that removes from the registry the decoders
\* it has used.
ConcDecodeConsuming(c, i) ==
    /\ calls[c] = Idle
    /\ calls' = [calls EXCEPT ![c] =
                    DecodeUnder(registry, i) @@ [kind |-> "decode", input |-> i]]
    /\ registry' = IF i.functionName = <<>> THEN registry
                   ELSE [k \in DOMAIN registry \ {i.functionName[1]} |-> registry[k]]
    /\ UNCHANGED <<mempool, chain, cmdVars, vecVars>>

\* A call of decodeTransaction.
ConcDecode(c, i) ==
    /\ calls[c] = Idle
    /\ calls' = [calls EXCEPT ![c] =
                    DecodeUnder(registry, i) @@ [kind |-> "decode", input |-> i]]
    /\ UNCHANGED <<registry, mempool, chain, cmdVars, vecVars>>

\* A call of executeTransaction, up to its first await.
ConcExecute(c, i) ==
    /\ calls[c] = Idle
    /\ calls' = [calls EXCEPT ![c] = ExecStart(i)]
    /\ UNCHANGED <<registry, mempool, chain, cmdVars, vecVars>>

\* The call is suspended at the await of the network operation.
Awaiting(c, pc) == calls[c].kind = "execute" /\ calls[c].pc = pc

\* simulate resolves for a call.
ConcSimulateReturn(c, success) ==
    /\ Awaiting(c, "simulating")
    /\ calls' = [calls EXCEPT ![c] =
                    Resume(@, Resolved([hash |-> TransactionHash(@.request[1].transaction),
                                        success |-> success]))]
    /\ UNCHANGED <<registry, mempool, chain, cmdVars, vecVars>>

\* submit resolves for a call: the network accepts a transaction it has not
\* seen, with an authenticator that verifies.
ConcSubmitReturn(c) ==
    /\ Awaiting(c, "submitting")
    /\ LET request == calls[c].request[1]
           hash == TransactionHash(request.transaction)
       IN /\ hash \notin mempool \cup chain
          /\ AuthenticatorVerifies(request.senderAuthenticator, request.transaction)
          /\ mempool' = mempool \cup {hash}
          /\ calls' = [calls EXCEPT ![c] = Resume(@, Resolved([hash |-> hash]))]
    /\ UNCHANGED <<registry, chain, cmdVars, vecVars>>

\* waitForTransaction resolves for a call: the transaction is included.
ConcWaitReturn(c) ==
    /\ Awaiting(c, "waiting")
    /\ LET hash == calls[c].request[1].transactionHash
       IN /\ hash \in mempool
          /\ mempool' = mempool \ {hash}
          /\ chain' = chain \cup {hash}
          /\ calls' = [calls EXCEPT ![c] =
                          Resume(@, Resolved([hash |-> hash, success |-> TRUE]))]
    /\ UNCHANGED <<registry, cmdVars, vecVars>>

\* The network call a call is suspended at is rejected.
ConcReject(c) ==
    /\ calls[c].kind = "execute"
    /\ calls[c].pc \in {"simulating", "submitting", "waiting"}
    /\ calls' = [calls EXCEPT ![c] = Resume(@, Rejected)]
    /\ UNCHANGED <<registry, mempool, chain, cmdVars, vecVars>>

ConcNext ==
    \E c \in 1..MaxCalls :
        \/ \E i \in ConcDecodeInputs : ConcDecode(c, i)
        \/ \E i \in ConcExecInputs : ConcExecute(c, i)
        \/ \E success \in BOOLEAN : ConcSimulateReturn(c, success)
        \/ ConcSubmitReturn(c)
        \/ ConcWaitReturn(c)
        \/ ConcReject(c)

ConcSpec == ConcInit /\ [][ConcNext]_vars

(***************************************************************************)
(* Properties.                                                             *)
(***************************************************************************)
\* The network calls among the events of a call, in order.
IsNetCall(e) == e \in {"net:simulate", "net:submit", "net:waitForTransaction"}
NetCalls(events) == SelectSeq(events, IsNetCall)

\* Whether an event is among the events.
Occurs(e, events) == \E k \in 1..Len(events) : events[k] = e

\* An executeTransaction call was made and is the current command.
Executing == exec.pc # "none"

\* A decodeTransaction call was made and is the current command.
Decoded == dec.status # "none"

\* C1, as stated: for every finished call of executeTransaction, with
\* dryRun neither submit nor waitForTransaction was invoked, and without
\* dryRun a call that invoked submit invoked it exactly once, followed by
\* exactly one waitForTransaction.
C1_AsStated ==
    Executing /\ exec.pc \in {"done", "failed"} =>
        IF exec.input.dryRun
        THEN /\ ~Occurs("net:submit", exec.events)
             /\ ~Occurs("net:waitForTransaction", exec.events)
        ELSE Occurs("net:submit", exec.events) =>
                 NetCalls(exec.events) = <<"net:submit", "net:waitForTransaction">>

\* C1, amended: at every moment of every call of executeTransaction, with
\* dryRun neither submit nor waitForTransaction has been invoked; without
\* dryRun the network calls made so far are none, or submit alone while
\* submit has not returned (it is pending or it failed), or submit followed
\* by one waitForTransaction once submit has returned.
C1_SubmitThenWait ==
    Executing =>
        IF exec.input.dryRun
        THEN NetCalls(exec.events) \in {<<>>, <<"net:simulate">>}
        ELSE NetCalls(exec.events) =
                 IF exec.request = <<>> THEN <<>>
                 ELSE IF exec.produced = <<>> THEN <<"net:submit">>
                 ELSE <<"net:submit", "net:waitForTransaction">>

\* C1, the case: a committed call that returned after submit and
\* waitForTransaction.
C1_Witness ==
    /\ Executing
    /\ exec.pc = "done"
    /\ ~exec.input.dryRun
    /\ NetCalls(exec.events) = <<"net:submit", "net:waitForTransaction">>

\* The transaction bytes are an undamaged envelope and the public key is of
\* the kind the multiSig flag announces.
WellFormedCall(i) ==
    /\ i.env.damage = "none"
    /\ i.publicKey = IF i.multiSig THEN "multiKey2of3" ELSE "ed25519"

\* C2, as stated: executeTransaction with dryRun = false and no signature
\* fails with MissingSignature and makes no network call, in both modes.
C2_AsStated ==
    Executing /\ ~exec.input.dryRun /\ exec.input.signature = "absent" =>
        /\ exec.pc = "failed"
        /\ exec.error = "MissingSignature"
        /\ NetCalls(exec.events) = <<>>

\* C2, amended: executeTransaction with dryRun = false and no signature
\* fails without any network call, in both modes; the failure is
\* MissingSignature when txBytes and publicKey deserialize, and the
\* deserialization error raised before the signature is looked at when they
\* do not.
C2_MissingSignature ==
    Executing /\ ~exec.input.dryRun /\ exec.input.signature = "absent" =>
        /\ exec.pc = "failed"
        /\ NetCalls(exec.events) = <<>>
        /\ exec.request = <<>>
        /\ IF WellFormedCall(exec.input)
           THEN exec.error = "MissingSignature"
           ELSE exec.error \in {"InvalidHex", "BufferUnderrun",
                                "AuthenticatorLengthMismatch", "InvalidMultiKey",
                                "UnknownVariant", "MalformedVarint", "InvalidBool"}

\* C2, the case: a multi-sig call without signature and without dryRun that
\* failed with MissingSignature.
C2_Witness ==
    /\ Executing
    /\ ~exec.input.dryRun
    /\ exec.input.multiSig
    /\ exec.input.signature = "absent"
    /\ exec.error = "MissingSignature"

\* The input of the current decodeTransaction call is an undamaged envelope
\* of a supported shape carrying an entry function.
EntryFunctionInput ==
    /\ Decoded
    /\ dec.input.env.damage = "none"
    /\ dec.input.env.shape \in {"plain", "feePayer"}
    /\ dec.input.env.tx \notin {"script", "multisig"}

\* The raw arguments in the envelope of the current decodeTransaction call.
InputArgs == RawArgsOf(dec.input.env.tx)

\* The function name of the current call is a key of the decoder registry.
RegisteredName ==
    /\ dec.input.functionName # <<>>
    /\ dec.input.functionName[1] \in DOMAIN ArgumentDecoders

\* The decoders registered for the function name of the current call.
InputDecoders == ArgumentDecoders[dec.input.functionName[1]]

\* The args of the record handed to writeFileSync by the current call.
WrittenArgs == dec.writes[1].data.payload.args

\* C3, as stated: when the function name is registered and the number of
\* raw arguments differs from the number of registered decoders, decode
\* fails for the mismatch and writes no output (the TypeError of calling a
\* decoder that does not exist is counted as ArgumentCountMismatch).
C3_AsStated ==
    EntryFunctionInput /\ RegisteredName /\ Len(InputArgs) # Len(InputDecoders) =>
        /\ dec.status = "failed"
        /\ dec.error \in {"ArgumentCountMismatch", "TypeError"}
        /\ dec.writes = <<>>

\* The two hexadecimal digits of each byte, in order.
HexDigitChars ==
    <<"0", "1", "2", "3", "4", "5", "6", "7", "8", "9", "a", "b", "c", "d", "e", "f">>

RECURSIVE HexOf(_)
HexOf(bytes) ==
    IF bytes = <<>> THEN ""
    ELSE HexDigitChars[(Head(bytes) \div 16) + 1]
         \o HexDigitChars[(Head(bytes) % 16) + 1] \o HexOf(Tail(bytes))

\* C4: when the function name is absent or not a key of the registry,
\* decode returns one value per raw argument, in the original order, each
\* the 0x-prefixed hex string of the argument's raw bytes, and applies no
\* registered decoder.
C4_RawHexArguments ==
    EntryFunctionInput /\ ~RegisteredName =>
        /\ Len(dec.writes) = 1
        /\ dec.applied = <<>>
        /\ Len(WrittenArgs) = Len(InputArgs)
        /\ \A k \in 1..Len(InputArgs) :
               /\ ~WrittenArgs[k].isArray
               /\ WrittenArgs[k].items = <<"0x" \o HexOf(InputArgs[k])>>

\* C4, the case: a call without function name that decoded three raw
\* arguments.
C4_Witness ==
    /\ EntryFunctionInput
    /\ dec.input.functionName = <<>>
    /\ dec.status = "ok"
    /\ Len(WrittenArgs) = 3

\* The value the k-th registered decoder gives for the k-th raw argument,
\* written out for the three kinds of decoder: the address in hex, the bytes
\* of a vector<u8> in hex, the hex of each vector of a vector<vector<u8>>.
ExpectedArgs ==
    <<[isArray |-> FALSE, items |-> <<"0x" \o HexOf(PackageAddress)>>],
      [isArray |-> FALSE, items |-> <<"0x010203">>],
      [isArray |-> TRUE, items |-> <<"0x0405", "0x", "0x06">>]>>

\* C5: decoding N raw arguments against a registered function with N
\* decoders yields exactly N values, the k-th being the k-th decoder applied
\* to the k-th raw argument.
C5_PositionalDecoding ==
    /\ EntryFunctionInput /\ RegisteredName /\ Len(InputArgs) = Len(InputDecoders)
       /\ dec.writes # <<>> =>
          /\ Len(WrittenArgs) = Len(InputArgs)
          /\ dec.applied = InputDecoders
          /\ \A k \in 1..Len(InputArgs) :
                 WrittenArgs[k] = ApplyDecoder(InputDecoders[k], InputArgs[k]).val
    /\ EntryFunctionInput /\ RegisteredName /\ dec.input.env.tx = "up3" =>
          /\ dec.writes # <<>>
          /\ WrittenArgs = ExpectedArgs

\* C5, the case: upgrade_package with its three arguments decoded with the
\* three decoders of upgradePackage.
C5_Witness ==
    /\ EntryFunctionInput
    /\ RegisteredName
    /\ dec.input.env.tx = "up3"
    /\ dec.status = "ok"
    /\ Len(dec.applied) = 3

\* The number of writeFileSync calls among the events of the call.
FileWrites == Len(SelectSeq(dec.events, LAMBDA e : e = "fs:writeFileSync"))

\* C6: decodeTransaction writes the output file exactly once when decoding
\* succeeds, and never, not even partially, when a decode-time step fails
\* (the hex conversion, the envelope deserialization, the payload-type
\* check, an argument decoder).
C6_WriteOnceOrNever ==
    Decoded =>
        /\ dec.status = "ok" =>
               FileWrites = 1 /\ Len(dec.writes) = 1 /\ dec.saved
        /\ dec.status = "failed" /\ dec.error # "IOError" =>
               FileWrites = 0 /\ dec.writes = <<>> /\ ~dec.saved

\* C6, the case: an argument decoder threw after another one had decoded
\* its argument, and nothing was written.
C6_Witness ==
    /\ Decoded
    /\ dec.status = "failed"
    /\ Len(dec.applied) >= 2
    /\ dec.error = "BufferUnderrun"
    /\ dec.writes = <<>>

\* The input of the current decodeTransaction call is an undamaged envelope
\* of a supported shape carrying a script or a multisig payload.
OtherPayloadInput ==
    /\ Decoded
    /\ dec.input.env.damage = "none"
    /\ dec.input.env.shape \in {"plain", "feePayer"}
    /\ dec.input.env.tx \in {"script", "multisig"}

\* C7: decoding an envelope whose payload is not an entry function (a
\* script, a multisig payload) fails with UnsupportedPayloadType, before
\* any argument decoding and before any output.
C7_UnsupportedPayloadType ==
    OtherPayloadInput =>
        /\ dec.status = "failed"
        /\ dec.error = "UnsupportedPayloadType"
        /\ dec.applied = <<>>
        /\ dec.events = <<>>
        /\ dec.writes = <<>>

\* C7, the case: a multisig payload given with a registered function name.
C7_Witness ==
    /\ Decoded
    /\ dec.input.env.tx = "multisig"
    /\ dec.input.functionName = <<"upgradePackage">>
    /\ dec.error = "UnsupportedPayloadType"

\* The record handed to writeFileSync by the current call, and the one the
\* plain-shape envelope of the same transaction gives with the same options.
WrittenRecord == dec.writes[1].data
PlainRecord ==
    DecodeOutcomes[[env |-> [dec.input.env EXCEPT !.shape = "plain"],
                    functionName |-> dec.input.functionName,
                    output |-> dec.input.output, fsOk |-> TRUE]].writes[1].data

HeaderFields ==
    {"sender", "sequenceNumber", "maxGasAmount", "gasUnitPrice",
     "expirationTimestampSecs", "chainId", "payload"}

\* C8: for an envelope of the plain or the fee-payer shape, the decoded
\* record contains a feePayer address if and only if the envelope has the
\* fee-payer shape, and every other field is the one of the plain-shape
\* envelope of the same transaction, each header field being the decimal or
\* hex string of its own value in the raw transaction.
C8_FeePayerField ==
    EntryFunctionInput /\ dec.writes # <<>> =>
        /\ ("feePayer" \in DOMAIN WrittenRecord) = (dec.input.env.shape = "feePayer")
        /\ DOMAIN WrittenRecord \ {"feePayer"} = HeaderFields
        /\ dec.input.env.shape = "feePayer" =>
               WrittenRecord.feePayer = "0x" \o HexOf(FeePayerAddress)
        /\ \A k \in HeaderFields : WrittenRecord[k] = PlainRecord[k]
        /\ WrittenRecord.sender = "0x" \o HexOf(SenderAddress)
        /\ WrittenRecord.sequenceNumber = "20"
        /\ WrittenRecord.maxGasAmount = "1000000"
        /\ WrittenRecord.gasUnitPrice = "500"
        /\ WrittenRecord.expirationTimestampSecs = "1700000000"
        /\ WrittenRecord.chainId = "4"

\* C8, the case: a fee-payer envelope decoded into a record with a feePayer.
C8_Witness ==
    /\ EntryFunctionInput
    /\ dec.input.env.shape = "feePayer"
    /\ dec.status = "ok"
    /\ "feePayer" \in DOMAIN WrittenRecord

\* C9, as stated: decoding an undamaged envelope whose shape is neither
\* plain nor fee payer (a multi-agent transaction, an unknown trailer)
\* fails for its shape and produces no output (the error of reading a byte
\* that is neither 0 nor 1 as the fee payer flag is counted as
\* UnsupportedTransactionShape).
C9_AsStated ==
    /\ Decoded
    /\ dec.input.env.damage = "none"
    /\ dec.input.env.shape \notin {"plain", "feePayer"}
    => /\ dec.status = "failed"
       /\ dec.error \in {"UnsupportedTransactionShape", "InvalidBool"}
       /\ dec.writes = <<>>

\* A step of a dry run: the call has not failed with MissingSignature and
\* has called neither submit nor waitForTransaction; what it has done up to
\* its first await is what it does with any other signature option; when it
\* returns, it returns the one response simulate produced; the mempool and
\* the chain are as they were before the step.
DryRunStep ==
    exec'.pc # "none" /\ exec'.input.dryRun =>
        /\ ~(exec'.pc = "failed" /\ exec'.error = "MissingSignature")
        /\ NetCalls(exec'.events) \in {<<>>, <<"net:simulate">>}
        /\ \A sig \in SignatureNames :
               LET other == [exec'.input EXCEPT !.signature = sig]
               IN other \in ExecInputs => ExecOutcomes[other] = ExecOutcomes[exec'.input]
        /\ exec'.pc = "done" =>
               /\ Len(exec'.produced) = 1
               /\ exec'.result = <<exec'.produced[1]>>
        /\ mempool' = mempool
        /\ chain' = chain

\* C10: executeTransaction with dryRun = true never fails with
\* MissingSignature, returns exactly the result the simulate call produced
\* whether or not a signature (valid or malformed) is supplied, and leaves
\* the on-chain state unchanged.
C10_DryRun == [][DryRunStep]_vars

\* C10, the case: a dry run given a malformed signature returned the result
\* of the simulation.
C10_Witness ==
    /\ Executing
    /\ exec.input.dryRun
    /\ exec.input.signature = "shortSignature"
    /\ exec.pc = "done"
    /\ exec.result # <<>>

\* The current call is a committed multi-sig call with the 2-of-3 key and a
\* well-formed MultiKeySignature that names a member index outside the three
\* member keys or carries fewer signatures than the two required.
BadThresholdSignature ==
    /\ Executing
    /\ exec.input.multiSig
    /\ ~exec.input.dryRun
    /\ exec.input.env.damage = "none"
    /\ exec.input.publicKey = "multiKey2of3"
    /\ exec.input.signature \in {"multiKey0", "multiKey05"}

\* C11, as stated: in multi-sig mode, when a signature's member index is
\* outside the declared member keys or the signatures are fewer than the
\* declared threshold, building the authenticator fails and submit is not
\* invoked.
C11_AsStated ==
    BadThresholdSignature =>
        /\ exec.pc = "failed"
        /\ ~Occurs("net:submit", exec.events)

\* C12: decoding the encoding of any sequence of byte strings, the empty
\* sequence and sequences with empty byte strings included, with the
\* two-level vector decoder yields the same byte strings, as many and in the
\* same order, having read the whole encoding; the empty sequence decodes to
\* an empty sequence.
C12_VectorRoundTrip ==
    vecResult # <<>> =>
        /\ vecResult[1].ok
        /\ Len(vecResult[1].val) = Len(vecInput)
        /\ \A k \in 1..Len(vecInput) : vecResult[1].val[k] = vecInput[k]
        /\ vecResult[1].pos = Len(EncodeVector(vecInput)) + 1
        /\ vecInput = <<>> => vecResult[1].val = <<>>

\* C12, the case: three byte strings, the second one empty, the others not,
\* were encoded and decoded.
C12_Witness ==
    /\ vecResult # <<>>
    /\ Len(vecInput) = 3
    /\ vecInput[1] # <<>>
    /\ vecInput[2] = <<>>
    /\ vecInput[3] # <<>>

\* The authenticator of the submit call the current call is suspended at.
SubmittedAuthenticator == exec.request[1].senderAuthenticator

\* C13: in every committed execution the authenticator handed to submit has
\* the variant the multiSig flag selects, and carries the public key parsed
\* under the same flag: the multi-key one with the parsed MultiKey and a
\* multi-key signature when multiSig is set, the single-key one with the
\* parsed Ed25519 key and an Ed25519 signature otherwise.
C13_VariantFollowsFlag ==
    Executing /\ exec.pc = "submitting" =>
        IF exec.input.multiSig
        THEN /\ SubmittedAuthenticator.variant = "multiKey"
             /\ SubmittedAuthenticator.public_key =
                    [variant |-> "multiKey", publicKeys |-> <<KeyA, KeyB, KeyC>>,
                     signaturesRequired |-> 2]
             /\ SubmittedAuthenticator.signatures.variant = "multiKey"
        ELSE /\ SubmittedAuthenticator.variant = "ed25519"
             /\ SubmittedAuthenticator.public_key =
                    [variant |-> "ed25519", key |-> KeyA]
             /\ SubmittedAuthenticator.signature.variant = "ed25519"

\* C13, the case: a committed multi-sig call suspended at submit with a
\* multi-key authenticator.
C13_Witness ==
    /\ Executing
    /\ exec.pc = "submitting"
    /\ exec.input.multiSig
    /\ SubmittedAuthenticator.variant = "multiKey"

\* The states of an invocation. It is Built once txBytes and publicKey are
\* deserialized; Simulating is the then branch of if (dryRun), from its log
\* line on; Submitting is the else branch, from its log line on; Done and
\* Failed are the return and the throw.
EnteredSimulating == Occurs("log:Dry running transaction...", exec.events)
EnteredSubmitting == Occurs("log:Executing transaction...", exec.events)
Finished == exec.pc \in {"done", "failed"}

\* An invocation that was built is in exactly one of the two branches, the
\* one its dryRun flag selects; one that was not built has failed in neither.
OneBranch ==
    Executing =>
        IF WellFormedCall(exec.input)
        THEN /\ EnteredSimulating = exec.input.dryRun
             /\ EnteredSubmitting = ~exec.input.dryRun
        ELSE exec.pc = "failed" /\ ~EnteredSimulating /\ ~EnteredSubmitting

\* A step of an invocation (runs tells the invocations apart): Done and
\* Failed are not left, and a suspended call moves on within its branch.
LifecycleStep ==
    exec.pc # "none" /\ runs' = runs =>
        /\ Finished => exec' = exec
        /\ exec.pc = "simulating" => exec'.pc \in {"simulating", "done", "failed"}
        /\ exec.pc = "submitting" => exec'.pc \in {"submitting", "waiting", "failed"}
        /\ exec.pc = "waiting" => exec'.pc \in {"waiting", "done", "failed"}

\* C14: each executeTransaction invocation goes from Built into exactly one
\* of Simulating and Submitting, the one the dryRun flag selects, and from
\* there to Done or Failed; it never enters both, never leaves Done or
\* Failed, and reaches Done or Failed provided every network call
\* eventually returns or fails.
C14_Lifecycle ==
    /\ []OneBranch
    /\ [][LifecycleStep]_vars
    /\ (Running ~> Finished)

\* C14, the case: a dry run that ended in Failed because simulate failed.
C14_Witness ==
    /\ Executing
    /\ exec.input.dryRun
    /\ EnteredSimulating
    /\ exec.pc = "failed"
    /\ exec.error = "NetworkFailure"

\* How many times an event is among the events.
Times(e, events) == Len(SelectSeq(events, LAMBDA x : x = e))

\* Each network operation was invoked at most once by the current call, and
\* a call that failed at submit did not invoke waitForTransaction.
AtMostOnce ==
    Executing =>
        /\ Times("net:simulate", exec.events) <= 1
        /\ Times("net:submit", exec.events) <= 1
        /\ Times("net:waitForTransaction", exec.events) <= 1
        /\ exec.pc = "failed" /\ exec.produced = <<>> =>
               ~Occurs("net:waitForTransaction", exec.events)

\* The step in which a network call fails: the invocation ends in Failed
\* with the network's error, and makes no further call.
NetworkFailureStep ==
    Running /\ exec'.pc = "failed" =>
        /\ exec'.error = "NetworkFailure"
        /\ exec'.events = exec.events
        /\ exec'.request = exec.request

\* C15: a failure of a network call (simulate, submit, waitForTransaction)
\* ends the invocation in Failed with that error and is not retried: each
\* network operation is invoked at most once per call, and when submit
\* fails waitForTransaction is never invoked.
C15_NoRetry == []AtMostOnce /\ [][NetworkFailureStep]_vars

\* C15, the case: a committed call that failed at submit, having called
\* submit once and nothing else.
C15_Witness ==
    /\ Executing
    /\ exec.pc = "failed"
    /\ exec.error = "NetworkFailure"
    /\ NetCalls(exec.events) = <<"net:submit">>

RECURSIVE AloneAfter(_, _)
\* What a call of executeTransaction produces when it runs alone and the
\* network gives it the answers of responses, in order.
AloneAfter(call, responses) ==
    IF responses = <<>> THEN call
    ELSE AloneAfter(Resume(call, Head(responses)), Tail(responses))

ExecutedAlone(i, responses) ==
    AloneAfter(ExecStart(i), responses)

\* What a call of decodeTransaction produces when it runs alone.
DecodedAlone(i) == DecodeOutcomes[i] @@ [kind |-> "decode", input |-> i]

\* C16: concurrent decode and execute calls share no mutable state: the
\* decoder registry is never modified, and under every interleaving each
\* call's output (the decoded record, or the sequence of network calls and
\* the outcome, given the answers the network gave it) is what the same
\* call produces when run alone.
C16_Isolation ==
    /\ registry = ArgumentDecoders
    /\ \A c \in DOMAIN calls :
           /\ calls[c].kind = "decode" => calls[c] = DecodedAlone(calls[c].input)
           /\ calls[c].kind = "execute" =>
                  calls[c] = ExecutedAlone(calls[c].input, calls[c].responses)

\* C16, the case: a decode with the registered decoders completed while a
\* committed execution, started before or after it, had called submit and
\* was waiting for the inclusion.
C16_Witness ==
    /\ DOMAIN calls = 1..MaxCalls
    /\ \E c \in DOMAIN calls :
           /\ calls[c].kind = "execute"
           /\ calls[c].pc = "waiting"
    /\ \E c \in DOMAIN calls :
           /\ calls[c].kind = "decode"
           /\ calls[c].status = "ok"
           /\ Len(calls[c].applied) = 3

\* The call the current decodeTransaction call differs from only in the
\* module address, module name or function name inside the envelope.
UpgradeCall == [dec.input EXCEPT !.env.tx = "up3"]

\* C17: the decoders applied depend only on the function name given by the
\* caller, never on the entry function named inside the envelope: without a
\* registered name no decoder is applied, whatever the envelope names; and
\* an envelope that differs from the upgrade_package one only in module
\* address, module name or function name, decoded with the same registered
\* name, has the same decoders applied and the same decoded arguments.
C17_HintDecides ==
    /\ Decoded /\ ~RegisteredName => dec.applied = <<>>
    /\ EntryFunctionInput /\ RegisteredName
       /\ dec.input.env.tx \in RenamedUpgrades =>
          /\ dec.applied = DecodeOutcomes[UpgradeCall].applied
          /\ dec.applied = InputDecoders
          /\ dec.status = DecodeOutcomes[UpgradeCall].status
          /\ dec.writes # <<>>
          /\ WrittenArgs = DecodeOutcomes[UpgradeCall].writes[1].data.payload.args

\* C17, the case: an envelope naming 0x..cd::upgradable::transfer with the
\* arguments of upgrade_package, decoded with the name upgradePackage.
C17_Witness ==
    /\ EntryFunctionInput
    /\ RegisteredName
    /\ dec.input.env.tx = "up3AsTransfer"
    /\ dec.status = "ok"
    /\ Len(dec.applied) = 3

\* C18, as stated: whenever the success message has been logged, the
\* writeFileSync call came before it and returned.
C18_AsStated ==
    Decoded =>
        \A k \in 1..Len(dec.events) :
            dec.events[k] = "log:success" =>
                /\ dec.saved
                /\ \E j \in 1..(k - 1) : dec.events[j] = "fs:writeFileSync"

====
